---- MODULE Spec2Model ----
(***************************************************************************)
(* MedCode: the asynchronous document-classification pipeline.             *)
(*                                                                         *)
(* The model covers coder_app/tasks.py (process_document, a Celery task    *)
(* with max_retries=2), coder_app/services.py (call_vlm and its response   *)
(* validation), coder_app/models.py (MedicalDocument) and the upload view  *)
(* of coder_app/views.py.  Every database operation of process_document is *)
(* one atomic step of the worker that runs it, so that the attempts of the *)
(* two pool workers interleave at the granularity of the ORM calls.        *)
(***************************************************************************)
EXTENDS Integers, Sequences, FiniteSets, TLC

\* ------------------------------------------------------------------ bounds
MaxDocs == 2            \* uploads accepted in a run
MaxRedeliveries == 1    \* deliveries beyond the one each upload enqueues
MaxRejected == 2        \* uploads rejected in a run

\* ------------------------------------------------------- program constants
max_retries == 2                  \* tasks.py:6
CELERY_WORKER_CONCURRENCY == 2    \* settings.py:86

STATUS_PENDING == "pending"
STATUS_PROCESSING == "processing"
STATUS_COMPLETED == "completed"
STATUS_FAILED == "failed"

HTTP_202_ACCEPTED == 202          \* views.py:30
HTTP_400_BAD_REQUEST == 400       \* views.py:22, serializer.is_valid(raise_exception=True)

DocIds == 1..MaxDocs
Workers == 1..CELERY_WORKER_CONCURRENCY

\* ----------------------------------------------------------- Python values
\* None (a NULL column), a str, and a list parsed from a JSON array.  Every
\* value has the same three fields: its type, its elements, its text.
None == [type |-> "None", items |-> <<>>, text |-> ""]
Str(text) == [type |-> "str", items |-> <<>>, text |-> text]
JArray(items) == [type |-> "list", items |-> items, text |-> ""]

\* ------------------------------------------------------------------- text
\* Python str values are TLA+ strings.  A TLA+ string cannot hold a
\* backquote, so the model writes the backquote as @.
BACKTICK == "@"
FENCE == BACKTICK \o BACKTICK \o BACKTICK

Char(s, i) == SubSeq(s, i, i)
From(s, i) == SubSeq(s, i, Len(s))
\* s[:n]
Take(s, n) == IF Len(s) <= n THEN s ELSE SubSeq(s, 1, n)
StartsWith(s, i, prefix) ==
    /\ i + Len(prefix) - 1 <= Len(s)
    /\ SubSeq(s, i, i + Len(prefix) - 1) = prefix

\* The characters str.strip() removes, and the whitespace of json.
StripChars == {" ", "\t", "\n", "\r", "\f"}
JsonWhitespace == {" ", "\t", "\n", "\r"}
Digits == {"0", "1", "2", "3", "4", "5", "6", "7", "8", "9"}

RECURSIVE lstrip(_, _)
lstrip(s, chars) ==
    IF s # "" /\ Char(s, 1) \in chars THEN lstrip(From(s, 2), chars) ELSE s

RECURSIVE rstrip(_, _)
rstrip(s, chars) ==
    IF s # "" /\ Char(s, Len(s)) \in chars THEN rstrip(SubSeq(s, 1, Len(s) - 1), chars) ELSE s

strip(s) == rstrip(lstrip(s, StripChars), StripChars)

\* re.sub(r"```(?:json)?", "", s): every fence, with the tag when it follows,
\* is removed, scanning from the left; the leftmost fence first, then the
\* rest of the text after it.
RECURSIVE re_sub_fence(_)
re_sub_fence(s) ==
    LET matches == {i \in 1..Len(s) : StartsWith(s, i, FENCE)}
    IN  IF matches = {} THEN s
        ELSE LET i == CHOOSE m \in matches : \A n \in matches : m <= n
                 end == IF StartsWith(s, i + 3, "json") THEN i + 7 ELSE i + 3
             IN  SubSeq(s, 1, i - 1) \o re_sub_fence(From(s, end))

\* strip_fences without the re.sub: only the surrounding whitespace and the
\* trailing backticks go.
strip_fences_NoFenceRemoval(content) == strip(rstrip(strip(content), {BACKTICK}))

\* services.py:90.
strip_fences(content) == strip(rstrip(strip(re_sub_fence(content)), {BACKTICK}))

\* ------------------------------------------------------------- json.loads
\* A parse step: whether it succeeded, the value, the index after it.
Parsed(v, pos) == [ok |-> TRUE, value |-> v, pos |-> pos]
ParseError == [ok |-> FALSE, value |-> None, pos |-> 0]

RECURSIVE skip_ws(_, _)
skip_ws(s, i) ==
    IF i <= Len(s) /\ Char(s, i) \in JsonWhitespace THEN skip_ws(s, i + 1) ELSE i

RECURSIVE scan_digits(_, _)
scan_digits(s, i) ==
    IF i <= Len(s) /\ Char(s, i) \in Digits THEN scan_digits(s, i + 1) ELSE i

\* The escapes of a JSON string that the model knows (\uXXXX is left out).
Unescape(c) ==
    CASE c = "n" -> "\n" [] c = "t" -> "\t" [] c = "r" -> "\r" [] c = "f" -> "\f"
      [] OTHER -> c
Escapes == {"\"", "\\", "/", "n", "t", "r", "f"}

\* py_scanstring, strict: from the index after the opening quote.
RECURSIVE scanstring(_, _, _)
scanstring(s, i, acc) ==
    IF i > Len(s) THEN ParseError
    ELSE IF Char(s, i) = "\"" THEN Parsed(Str(acc), i + 1)
    ELSE IF Char(s, i) = "\\"
         THEN IF i + 1 <= Len(s) /\ Char(s, i + 1) \in Escapes
              THEN scanstring(s, i + 2, acc \o Unescape(Char(s, i + 1)))
              ELSE ParseError
    ELSE IF Char(s, i) \in {"\n", "\t", "\r", "\f"} THEN ParseError
    ELSE scanstring(s, i + 1, acc \o Char(s, i))

\* NUMBER_RE: (-?(?:0|[1-9]\d*))(\.\d+)?([eE][-+]?\d+)?
scan_number(s, i) ==
    LET first == IF StartsWith(s, i, "-") THEN i + 1 ELSE i
        int_end == IF StartsWith(s, first, "0") THEN first + 1 ELSE scan_digits(s, first)
        frac_end == IF StartsWith(s, int_end, ".") /\ scan_digits(s, int_end + 1) > int_end + 1
                    THEN scan_digits(s, int_end + 1) ELSE int_end
        sign_end == IF frac_end + 1 <= Len(s) /\ Char(s, frac_end + 1) \in {"+", "-"}
                    THEN frac_end + 2 ELSE frac_end + 1
        exp_end == IF frac_end <= Len(s) /\ Char(s, frac_end) \in {"e", "E"}
                      /\ scan_digits(s, sign_end) > sign_end
                   THEN scan_digits(s, sign_end) ELSE frac_end
    IN  IF int_end = first THEN ParseError
        ELSE Parsed([type |-> IF exp_end = int_end THEN "int" ELSE "float",
                     items |-> <<>>, text |-> SubSeq(s, i, exp_end - 1)], exp_end)

PyFloat(text) == [type |-> "float", items |-> <<>>, text |-> text]
PyBool(text) == [type |-> "bool", items |-> <<>>, text |-> text]
PyDict(items) == [type |-> "dict", items |-> items, text |-> ""]
\* One key of a dict and its value.
PyItem(key, value) == [type |-> "item", items |-> <<value>>, text |-> key]

RECURSIVE scan_once(_, _, _)
RECURSIVE JSONArray(_, _, _, _)
RECURSIVE JSONObject(_, _, _, _)

\* json.scanner.py_make_scanner._scan_once.  allow_nan is parse_constant
\* accepting NaN, Infinity and -Infinity, as json.loads does by default.
scan_once(s, i, allow_nan) ==
    IF i > Len(s) THEN ParseError
    ELSE IF Char(s, i) = "\"" THEN scanstring(s, i + 1, "")
    ELSE IF Char(s, i) = "{" THEN JSONObject(s, skip_ws(s, i + 1), <<>>, allow_nan)
    ELSE IF Char(s, i) = "[" THEN JSONArray(s, skip_ws(s, i + 1), <<>>, allow_nan)
    ELSE IF StartsWith(s, i, "null") THEN Parsed(None, i + 4)
    ELSE IF StartsWith(s, i, "true") THEN Parsed(PyBool("True"), i + 4)
    ELSE IF StartsWith(s, i, "false") THEN Parsed(PyBool("False"), i + 5)
    ELSE IF scan_number(s, i).ok THEN scan_number(s, i)
    ELSE IF allow_nan /\ StartsWith(s, i, "NaN") THEN Parsed(PyFloat("nan"), i + 3)
    ELSE IF allow_nan /\ StartsWith(s, i, "Infinity") THEN Parsed(PyFloat("inf"), i + 8)
    ELSE IF allow_nan /\ StartsWith(s, i, "-Infinity") THEN Parsed(PyFloat("-inf"), i + 9)
    ELSE ParseError

\* json.decoder.JSONArray: i is the index of the next element, or of the
\* closing bracket of an empty array.
JSONArray(s, i, acc, allow_nan) ==
    IF acc = <<>> /\ StartsWith(s, i, "]") THEN Parsed(JArray(<<>>), i + 1)
    ELSE LET v == scan_once(s, i, allow_nan)
             j == skip_ws(s, v.pos)
         IN  IF ~v.ok THEN ParseError
             ELSE IF StartsWith(s, j, "]") THEN Parsed(JArray(Append(acc, v.value)), j + 1)
             ELSE IF StartsWith(s, j, ",")
                  THEN JSONArray(s, skip_ws(s, j + 1), Append(acc, v.value), allow_nan)
             ELSE ParseError

\* json.decoder.JSONObject: i is the index of the next key's opening quote,
\* or of the closing brace of an empty object.
JSONObject(s, i, acc, allow_nan) ==
    IF acc = <<>> /\ StartsWith(s, i, "}") THEN Parsed(PyDict(<<>>), i + 1)
    ELSE IF ~StartsWith(s, i, "\"") THEN ParseError
    ELSE LET k == scanstring(s, i + 1, "")
             colon == skip_ws(s, k.pos)
             v == scan_once(s, skip_ws(s, colon + 1), allow_nan)
             j == skip_ws(s, v.pos)
         IN  IF ~k.ok \/ ~StartsWith(s, colon, ":") \/ ~v.ok THEN ParseError
             ELSE IF StartsWith(s, j, "}")
                  THEN Parsed(PyDict(Append(acc, PyItem(k.value.text, v.value))), j + 1)
             ELSE IF StartsWith(s, j, ",")
                  THEN JSONObject(s, skip_ws(s, j + 1),
                                  Append(acc, PyItem(k.value.text, v.value)), allow_nan)
             ELSE ParseError

\* JSONDecoder.decode: one value, whitespace around it, nothing else.
decode(s, allow_nan) ==
    LET v == scan_once(s, skip_ws(s, 1), allow_nan)
    IN  IF v.ok /\ skip_ws(s, v.pos) = Len(s) + 1 THEN v ELSE ParseError

\* json.loads(s): ok is FALSE where it raises JSONDecodeError.
json_loads(s) == decode(s, TRUE)

\* type(value).__name__
TypeName(value) == IF value.type = "None" THEN "NoneType" ELSE value.type

\* --------------------------------------------------------------- call_vlm
\* The files an upload can leave on disk: one that PIL decodes, and one that
\* passes the upload's header check but whose pixel data cannot be loaded.
Files == {"scan.jpg", "truncated.jpg"}

\* What the remote classifier answers to one request: the HTTP status, the
\* body text, and (for a success) the message content the body carries.
ErrorResponse(status_code, body) ==
    [status_code |-> status_code, text |-> body, content |-> body]
OkResponse(content) == [status_code |-> 200, text |-> content, content |-> content]

\* requests.Response.ok
ok(response) == response.status_code < 400

PneumoniaText == "[{\"code\": \"J18.9\", \"description\": \"Pneumonia, unspecified organism\"}]"
PneumoniaCodes ==
    JArray(<<PyDict(<<PyItem("code", Str("J18.9")),
                      PyItem("description", Str("Pneumonia, unspecified organism"))>>)>>)

\* The pipeline is driven with a rate-limit answer and with two different
\* well-formed answers.
Responses ==
    { ErrorResponse(429, "Rate limit exceeded"),
      OkResponse("[]"),
      OkResponse(PneumoniaText) }

\* The outcome of a call: a returned value, or a raised exception.
Return(v) == [raised |-> FALSE, exc |-> "", msg |-> None, value |-> v]
Raise(e, m) == [raised |-> TRUE, exc |-> e, msg |-> Str(m), value |-> None]
NoOutcome == Return(None)

\* preprocess_image: Image.open(...).convert("RGB") raises on a file PIL
\* cannot decode; otherwise the JPEG bytes are returned.
preprocess_image(file) ==
    IF file = "truncated.jpg"
    THEN Raise("UnidentifiedImageError", "cannot identify image file")
    ELSE Return(None)

\* call_vlm without the check of response.ok.
call_vlm_StatusNotChecked(file, response) ==
    IF preprocess_image(file).raised THEN preprocess_image(file)
    ELSE LET content == strip_fences(response.content)
             results == json_loads(content)
         IN  IF ~results.ok
             THEN Raise("RuntimeError", "VLM returned non-JSON content: " \o Take(content, 200))
             ELSE IF results.value.type # "list"
             THEN Raise("RuntimeError", "Expected a JSON array, got: <class '"
                                           \o TypeName(results.value) \o "'>")
             ELSE Return(results.value)

\* call_vlm without the isinstance check: any parsed value is returned.
call_vlm_AnyJsonReturned(file, response) ==
    IF preprocess_image(file).raised THEN preprocess_image(file)
    ELSE IF ~ok(response)
    THEN Raise("RuntimeError", "OpenRouter error " \o ToString(response.status_code)
                                  \o ": " \o Take(response.text, 300))
    ELSE LET content == strip_fences(response.content)
             results == json_loads(content)
         IN  IF ~results.ok
             THEN Raise("RuntimeError", "VLM returned non-JSON content: " \o Take(content, 200))
             ELSE Return(results.value)

\* call_vlm that also requires every element of the list to be a dict.
call_vlm_ElementsChecked(file, response) ==
    IF preprocess_image(file).raised THEN preprocess_image(file)
    ELSE IF ~ok(response)
    THEN Raise("RuntimeError", "OpenRouter error " \o ToString(response.status_code)
                                  \o ": " \o Take(response.text, 300))
    ELSE LET content == strip_fences(response.content)
             results == json_loads(content)
         IN  IF ~results.ok
             THEN Raise("RuntimeError", "VLM returned non-JSON content: " \o Take(content, 200))
             ELSE IF results.value.type # "list"
                     \/ \E k \in DOMAIN results.value.items :
                            results.value.items[k].type # "dict"
             THEN Raise("RuntimeError", "Expected a JSON array, got: <class '"
                                           \o TypeName(results.value) \o "'>")
             ELSE Return(results.value)

\* call_vlm that takes an empty list for a failure.
call_vlm_EmptyIsFailure(file, response) ==
    IF preprocess_image(file).raised THEN preprocess_image(file)
    ELSE IF ~ok(response)
    THEN Raise("RuntimeError", "OpenRouter error " \o ToString(response.status_code)
                                  \o ": " \o Take(response.text, 300))
    ELSE LET content == strip_fences(response.content)
             results == json_loads(content)
         IN  IF ~results.ok
             THEN Raise("RuntimeError", "VLM returned non-JSON content: " \o Take(content, 200))
             ELSE IF results.value.type # "list" \/ results.value.items = <<>>
             THEN Raise("RuntimeError", "Expected a JSON array, got: <class '"
                                           \o TypeName(results.value) \o "'>")
             ELSE Return(results.value)

\* services.py:36-100: preprocess, post, then validate the response.
call_vlm(file, response) ==
    IF preprocess_image(file).raised THEN preprocess_image(file)
    ELSE IF ~ok(response)
         THEN Raise("RuntimeError", "OpenRouter error " \o ToString(response.status_code)
                                       \o ": " \o Take(response.text, 300))
    ELSE LET content == strip_fences(response.content)
             results == json_loads(content)
         IN  IF ~results.ok
             THEN Raise("RuntimeError", "VLM returned non-JSON content: " \o Take(content, 200))
             ELSE IF results.value.type # "list"
             THEN Raise("RuntimeError", "Expected a JSON array, got: <class '"
                                           \o TypeName(results.value) \o "'>")
             ELSE Return(results.value)

\* call_vlm is a function of the file and the response alone: its outcomes
\* for the files and responses of the pipeline.
VlmOutcome == [file \in Files |-> [response \in Responses |-> call_vlm(file, response)]]

\* -------------------------------------------- preprocess_image: the resize
MAX_PIXELS == 2000000

\* a/b <= c/d for a, c >= 0 and b, d > 0, without forming a product (Python's
\* integers do not overflow).
RECURSIVE LeqFrac(_, _, _, _)
LeqFrac(a, b, c, d) ==
    IF a \div b # c \div d THEN a \div b < c \div d
    ELSE IF a % b = 0 THEN TRUE
    ELSE IF c % d = 0 THEN FALSE
    ELSE LeqFrac(d, c % d, b, a % b)

\* n <= side * scale, for scale = (MAX_PIXELS / (side * other)) ** 0.5:
\* n * n * other <= side * MAX_PIXELS.
AtMostScaled(n, side, other) == n = 0 \/ LeqFrac(n * other, side, MAX_PIXELS, n)

\* The greatest n in lo..hi with n <= side * scale.
RECURSIVE Greatest(_, _, _, _)
Greatest(lo, hi, side, other) ==
    IF lo = hi THEN lo
    ELSE IF AtMostScaled((lo + hi + 1) \div 2, side, other)
         THEN Greatest((lo + hi + 1) \div 2, hi, side, other)
         ELSE Greatest(lo, (lo + hi + 1) \div 2 - 1, side, other)

\* int(side * scale).  Where side * scale is an integer n in the reals, the
\* doubles of the computation may round below it, and int() then gives n - 1.
int_scaled(side, other) ==
    LET n == Greatest(0, side, side, other)
    IN  IF n > 0 /\ LeqFrac(MAX_PIXELS, n, n * other, side) THEN {n - 1, n} ELSE {n}

\* The size of an image, as a value.
Size(w, h) == [type |-> "tuple", items |-> <<w, h>>, text |-> ""]

\* preprocess_image on a decodable image of size (w, h): the sizes of the
\* image it encodes.  Image.resize raises on a size with a zero.
resize(w, h) ==
    IF w * h > MAX_PIXELS
    THEN { IF nw < 1 \/ nh < 1
           THEN Raise("ValueError", "height and width must be > 0")
           ELSE Return(Size(nw, nh)) :
               nw \in int_scaled(w, h), nh \in int_scaled(h, w) }
    ELSE { Return(Size(w, h)) }

\* The sizes of the images given to preprocess_image: sides around the cap
\* and its square root, and the extreme aspect ratios, up to MaxInputPixels.
MaxInputPixels == 178956970
Sides == {1, 2, 3, 500, 1000, 1414, 1415, 2000, 3000, 4000, 6000, 8000, 2000001}
Sizes == { size \in Sides \X Sides : size[1] <= MaxInputPixels \div size[2] }

\* ------------------------------------------------ direct calls of call_vlm
RECURSIVE Repeat(_, _)
Repeat(s, n) == IF n = 0 THEN "" ELSE s \o Repeat(s, n - 1)

\* A text longer than both excerpts that call_vlm cuts (200 and 300).
LongText == Repeat("Rate limit exceeded. ", 16)

\* A text as the classifier may wrap it in a fenced code block.
FenceKinds == {"json", "plain", "json_tight", "plain_tight", "json_spaced"}
Wrap(kind, text) ==
    CASE kind = "json" -> FENCE \o "json\n" \o text \o "\n" \o FENCE
      [] kind = "plain" -> FENCE \o "\n" \o text \o "\n" \o FENCE
      [] kind = "json_tight" -> FENCE \o "json" \o text \o FENCE
      [] kind = "plain_tight" -> FENCE \o text \o FENCE
      [] kind = "json_spaced" -> "  " \o FENCE \o "json\n" \o text \o "\n" \o FENCE \o "  \n"
      [] OTHER -> text

\* Texts of JSON arrays of code/description objects.
ArrayTexts ==
    { PneumoniaText,
      "[]",
      "[{\"code\": \"E11.9\", \"description\": \"Type 2 diabetes\"}, {\"code\": \"I10\", \"description\": \"Hypertension\"}]",
      "[\n  {\"code\": \"J18.9\", \"description\": \"Pneumonia\"}\n]",
      "[{\"code\": \"R05\", \"description\": \"Cough, see @@@json note\"}]" }

\* Other texts: JSON that is no array, arrays of other elements, no JSON.
OtherTexts ==
    { "{\"code\":\"J18.9\"}",
      "\"J18.9\"",
      "42",
      "true",
      "null",
      "[1, \"x\"]",
      "[{\"code\": \"J18.9\"}, null]",
      "NaN",
      "[NaN]",
      "",
      "Sorry, I cannot read this image.",
      "[{\"code\": \"J18.9\"",
      "[{\"code\": \"J18.9\"},]",
      "Here are the codes: [{\"code\": \"J18.9\"}]",
      LongText }

VlmResponses ==
    { OkResponse(Wrap(kind, text)) :
          kind \in FenceKinds \cup {"none"}, text \in ArrayTexts \cup OtherTexts }
    \cup { ErrorResponse(status_code, body) :
          status_code \in {404, 429, 500},
          body \in {"Rate limit exceeded", PneumoniaText, LongText} }

\* ------------------------------------------------------------------- state
VARIABLES
    docs,         \* the MedicalDocument table: pk -> row
    queue,        \* task messages held by the broker
    workers,      \* each pool worker's position in process_document
    tasks,        \* per task id, the document id it was sent with, the
                  \* outcomes of its call_vlm calls so far, in order, and
                  \* the task state kept by the result backend
    redeliveries, \* deliveries made beyond the uploads' own
    http,         \* the status codes answered to the upload requests, in order
    probe,        \* a direct call of call_vlm or preprocess_image: its
                  \* argument and, once it has run, its outcome
    outcomes      \* what call_vlm does on each file and response of the
                  \* pipeline: VlmOutcome, fixed from the start

vars == <<docs, queue, workers, tasks, redeliveries, http, probe, outcomes>>

NoProbe == [fn |-> "", arg |-> <<>>, done |-> FALSE, out |-> NoOutcome]

Idle == [pc |-> "idle", task |-> 0, doc_id |-> 0, retries |-> 0,
         file |-> "", delivered_completed |-> FALSE, outcome |-> NoOutcome]

\* An empty table, an empty queue, idle workers.
Empty ==
    /\ docs = <<>>
    /\ queue = {}
    /\ workers = [w \in Workers |-> Idle]
    /\ tasks = <<>>
    /\ redeliveries = 0
    /\ http = <<>>
    /\ outcomes = VlmOutcome

Init == Empty /\ probe = NoProbe

\* A task as the result backend first knows it.
NewTask(doc_id) == [doc_id |-> doc_id, calls |-> <<>>, state |-> "PENDING"]

\* process_document.delay(doc_id): a new task message, retries = 0.
delay(doc_id) == [task |-> Len(tasks) + 1, doc_id |-> doc_id, retries |-> 0]

\* Upload that answers 202 without queuing the task.
Upload_NotQueued(file) ==
    /\ Len(docs) < MaxDocs
    /\ docs' = Append(docs, [id |-> Len(docs) + 1, file |-> file,
                             status |-> STATUS_PENDING,
                             vlm_results |-> None, error_message |-> None,
                             created_at |-> Len(http) + 1])
    /\ http' = Append(http, HTTP_202_ACCEPTED)
    /\ UNCHANGED <<queue, tasks, workers, redeliveries, probe, outcomes>>

\* UploadDocumentView.post with a valid file: serializer.save() creates the
\* row with the next id, the model's defaults and the time of the request
\* (auto_now_add; the requests so far are the clock), then the task is queued.
Upload(file) ==
    /\ Len(docs) < MaxDocs
    /\ docs' = Append(docs, [id |-> Len(docs) + 1, file |-> file,
                             status |-> STATUS_PENDING,
                             vlm_results |-> None, error_message |-> None,
                             created_at |-> Len(http) + 1])
    /\ queue' = queue \cup {delay(Len(docs) + 1)}
    /\ tasks' = Append(tasks, NewTask(Len(docs) + 1))
    /\ http' = Append(http, HTTP_202_ACCEPTED)
    /\ UNCHANGED <<workers, redeliveries, probe, outcomes>>

\* UploadDocumentView.post without a file: is_valid(raise_exception=True)
\* raises ValidationError, which the framework answers with 400; save() and
\* delay() are not reached.
UploadRejected ==
    /\ Cardinality({i \in DOMAIN http : http[i] = HTTP_400_BAD_REQUEST}) < MaxRejected
    /\ http' = Append(http, HTTP_400_BAD_REQUEST)
    /\ UNCHANGED <<docs, queue, tasks, workers, redeliveries, probe, outcomes>>

\* The dispatcher delivers a document id once more (a duplicate or repeated
\* process_document.delay), whether or not a row with that pk exists.
Redeliver(doc_id) ==
    /\ redeliveries < MaxRedeliveries
    /\ redeliveries' = redeliveries + 1
    /\ queue' = queue \cup {delay(doc_id)}
    /\ tasks' = Append(tasks, NewTask(doc_id))
    /\ UNCHANGED <<docs, workers, http, probe, outcomes>>

\* Get with DoesNotExist handled like any other failure: the task is re-sent.
Get_RetryOnMissing(w, m) ==
    /\ workers[w].pc = "idle"
    /\ \A v \in Workers : v < w => workers[v].pc # "idle"
    /\ m \in queue
    /\ IF m.doc_id \in DOMAIN docs
       THEN /\ workers' = [workers EXCEPT ![w] =
                    [pc |-> "save_processing", task |-> m.task, doc_id |-> m.doc_id,
                     retries |-> m.retries, file |-> docs[m.doc_id].file,
                     delivered_completed |-> docs[m.doc_id].status = STATUS_COMPLETED, outcome |-> NoOutcome]]
            /\ queue' = queue \ {m}
            /\ tasks' = tasks
       ELSE /\ workers' = workers
            /\ m.retries < max_retries
            /\ queue' = (queue \ {m}) \cup {[m EXCEPT !.retries = @ + 1]}
            /\ tasks' = [tasks EXCEPT ![m.task].state = "RETRY"]
    /\ UNCHANGED <<docs, redeliveries, http, probe, outcomes>>

\* tasks.py:11-14.  A worker takes a message and loads the row; a missing
\* row ends the task.  Idle pool workers hold no state and are
\* interchangeable, so the message goes to the idle worker of lowest index.
\* delivered_completed records whether the row was Completed when loaded.
Get(w, m) ==
    /\ workers[w].pc = "idle"
    /\ \A v \in Workers : v < w => workers[v].pc # "idle"
    /\ m \in queue
    /\ queue' = queue \ {m}
    /\ IF m.doc_id \in DOMAIN docs
       THEN /\ workers' = [workers EXCEPT ![w] =
                    [pc |-> "save_processing", task |-> m.task, doc_id |-> m.doc_id,
                     retries |-> m.retries, file |-> docs[m.doc_id].file,
                     delivered_completed |-> docs[m.doc_id].status = STATUS_COMPLETED, outcome |-> NoOutcome]]
            /\ tasks' = tasks
       ELSE /\ workers' = workers
            /\ tasks' = [tasks EXCEPT ![m.task].state = "SUCCESS"]
    /\ UNCHANGED <<docs, redeliveries, http, probe, outcomes>>

\* SaveProcessing without the save: the attempt goes on to the call with the
\* row as it was loaded.
SaveProcessing_StatusNotSaved(w) ==
    /\ workers[w].pc = "save_processing"
    /\ workers' = [workers EXCEPT ![w].pc = "call_vlm"]
    /\ UNCHANGED <<docs, queue, tasks, redeliveries, http, probe, outcomes>>

\* tasks.py:16-17.  save(update_fields=["status"]) writes the status column only.
SaveProcessing(w) ==
    /\ workers[w].pc = "save_processing"
    /\ docs' = [docs EXCEPT ![workers[w].doc_id].status = STATUS_PROCESSING]
    /\ workers' = [workers EXCEPT ![w].pc = "call_vlm"]
    /\ UNCHANGED <<queue, tasks, redeliveries, http, probe, outcomes>>

\* What the call log keeps of a call: the response the classifier gave (none
\* when preprocessing raised before the request), the exception class or the
\* returned value.
NoResponse == [status_code |-> 0, text |-> "", content |-> ""]
Logged(file, response, outcome) ==
    [response |-> IF preprocess_image(file).raised THEN NoResponse ELSE response,
     exc |-> outcome.exc, value |-> outcome.value]

\* CallVlm whose exception is not caught by process_document: the failure
\* goes to the retry without the save of the except branch.
CallVlm_FailureEscapes(w, response) ==
    /\ workers[w].pc = "call_vlm"
    /\ LET outcome == outcomes[workers[w].file][response] IN
        /\ workers' = [workers EXCEPT ![w].outcome = outcome,
                          ![w].pc = IF outcome.raised THEN "retry" ELSE "save_completed"]
        /\ tasks' = [tasks EXCEPT ![workers[w].task].calls = Append(@, Logged(workers[w].file, response, outcome))]
    /\ UNCHANGED <<docs, queue, redeliveries, http, probe, outcomes>>

\* tasks.py:20.  The call returns a list or raises.
CallVlm(w, response) ==
    /\ workers[w].pc = "call_vlm"
    /\ LET outcome == outcomes[workers[w].file][response] IN
        /\ workers' = [workers EXCEPT ![w].outcome = outcome,
                          ![w].pc = IF outcome.raised THEN "save_failed" ELSE "save_completed"]
        /\ tasks' = [tasks EXCEPT ![workers[w].task].calls = Append(@, Logged(workers[w].file, response, outcome))]
    /\ UNCHANGED <<docs, queue, redeliveries, http, probe, outcomes>>

\* SaveCompleted with "vlm_results" left out of update_fields.
SaveCompleted_ResultsNotSaved(w) ==
    /\ workers[w].pc = "save_completed"
    /\ docs' = [docs EXCEPT ![workers[w].doc_id] =
                  [@ EXCEPT !.status = STATUS_COMPLETED,
                            !.error_message = None]]
    /\ workers' = [workers EXCEPT ![w] = Idle]
    /\ tasks' = [tasks EXCEPT ![workers[w].task].state = "SUCCESS"]
    /\ UNCHANGED <<queue, redeliveries, http, probe, outcomes>>

\* SaveCompleted with "error_message" left out of update_fields.
SaveCompleted_ErrorNotCleared(w) ==
    /\ workers[w].pc = "save_completed"
    /\ docs' = [docs EXCEPT ![workers[w].doc_id] =
                  [@ EXCEPT !.vlm_results = workers[w].outcome.value,
                            !.status = STATUS_COMPLETED]]
    /\ workers' = [workers EXCEPT ![w] = Idle]
    /\ tasks' = [tasks EXCEPT ![workers[w].task].state = "SUCCESS"]
    /\ UNCHANGED <<queue, redeliveries, http, probe, outcomes>>

\* tasks.py:21-24.  One UPDATE of vlm_results, status and error_message.
SaveCompleted(w) ==
    /\ workers[w].pc = "save_completed"
    /\ docs' = [docs EXCEPT ![workers[w].doc_id] =
                  [@ EXCEPT !.vlm_results = workers[w].outcome.value,
                            !.status = STATUS_COMPLETED,
                            !.error_message = None]]
    /\ workers' = [workers EXCEPT ![w] = Idle]
    /\ tasks' = [tasks EXCEPT ![workers[w].task].state = "SUCCESS"]
    /\ UNCHANGED <<queue, redeliveries, http, probe, outcomes>>

\* SaveFailed with "status" left out of update_fields.
SaveFailed_StatusNotSaved(w) ==
    /\ workers[w].pc = "save_failed"
    /\ docs' = [docs EXCEPT ![workers[w].doc_id].error_message = workers[w].outcome.msg]
    /\ workers' = [workers EXCEPT ![w].pc = "retry"]
    /\ UNCHANGED <<queue, tasks, redeliveries, http, probe, outcomes>>

\* SaveFailed as an UPDATE without the filter on the primary key: every row
\* is written.
SaveFailed_EveryRow(w) ==
    /\ workers[w].pc = "save_failed"
    /\ docs' = [d \in DOMAIN docs |->
                  [docs[d] EXCEPT !.status = STATUS_FAILED,
                                  !.error_message = workers[w].outcome.msg]]
    /\ workers' = [workers EXCEPT ![w].pc = "retry"]
    /\ UNCHANGED <<queue, tasks, redeliveries, http, probe, outcomes>>

\* tasks.py:27-29.  One UPDATE of status and error_message; vlm_results is
\* not among the update_fields.
SaveFailed(w) ==
    /\ workers[w].pc = "save_failed"
    /\ docs' = [docs EXCEPT ![workers[w].doc_id] =
                  [@ EXCEPT !.status = STATUS_FAILED,
                            !.error_message = workers[w].outcome.msg]]
    /\ workers' = [workers EXCEPT ![w].pc = "retry"]
    /\ UNCHANGED <<queue, tasks, redeliveries, http, probe, outcomes>>

\* Retry with the bound off by one: request.retries itself, not the retries
\* of the message to send, is compared with max_retries.
Retry_OffByOne(w) ==
    /\ workers[w].pc = "retry"
    /\ IF workers[w].retries > max_retries
       THEN /\ queue' = queue
            /\ tasks' = [tasks EXCEPT ![workers[w].task].state = "FAILURE"]
       ELSE /\ queue' = queue \cup {[task |-> workers[w].task, doc_id |-> workers[w].doc_id,
                                      retries |-> workers[w].retries + 1]}
            /\ tasks' = [tasks EXCEPT ![workers[w].task].state = "RETRY"]
    /\ workers' = [workers EXCEPT ![w] = Idle]
    /\ UNCHANGED <<docs, redeliveries, http, probe, outcomes>>

\* tasks.py:30.  self.retry(exc=exc): while request.retries < max_retries the
\* task is re-sent with retries + 1 (after default_retry_delay) and Retry is
\* raised; once the retries are used up, exc itself is raised.  Either way the
\* attempt is over, and the backend records RETRY or FAILURE.
Retry(w) ==
    /\ workers[w].pc = "retry"
    /\ IF workers[w].retries + 1 > max_retries
       THEN /\ queue' = queue
            /\ tasks' = [tasks EXCEPT ![workers[w].task].state = "FAILURE"]
       ELSE /\ queue' = queue \cup {[task |-> workers[w].task, doc_id |-> workers[w].doc_id,
                                      retries |-> workers[w].retries + 1]}
            /\ tasks' = [tasks EXCEPT ![workers[w].task].state = "RETRY"]
    /\ workers' = [workers EXCEPT ![w] = Idle]
    /\ UNCHANGED <<docs, redeliveries, http, probe, outcomes>>

WorkerStep(w) ==
    \/ \E m \in queue : Get(w, m)
    \/ SaveProcessing(w)
    \/ \E response \in Responses : CallVlm(w, response)
    \/ SaveCompleted(w)
    \/ SaveFailed(w)
    \/ Retry(w)

Next ==
    \/ \E file \in Files : Upload(file)
    \/ \E doc_id \in 1..(MaxDocs + 1) : Redeliver(doc_id)
    \/ \E w \in Workers : WorkerStep(w)

Spec == Init /\ [][Next]_vars

\* Every document is delivered once, by its upload, and never again.
NextSingle ==
    \/ \E file \in Files : Upload(file)
    \/ \E w \in Workers : WorkerStep(w)

SpecSingle == Init /\ [][NextSingle]_vars

\* Upload requests with and without a file, and the workers; every
\* document is delivered once.
NextUpload ==
    \/ \E file \in Files : Upload(file)
    \/ UploadRejected
    \/ \E w \in Workers : WorkerStep(w)

SpecUpload == Init /\ [][NextUpload]_vars

\* call_vlm called directly, once, with any of VlmResponses and a decodable
\* file.
InitVlm ==
    /\ Empty
    /\ probe \in { [fn |-> "call_vlm", arg |-> response, done |-> FALSE, out |-> NoOutcome] :
                      response \in VlmResponses }

ProbeCallVlm ==
    /\ probe.fn = "call_vlm" /\ ~probe.done
    /\ probe' = [probe EXCEPT !.done = TRUE, !.out = call_vlm("scan.jpg", probe.arg)]
    /\ UNCHANGED <<docs, queue, workers, tasks, redeliveries, http, outcomes>>

NextVlm == ProbeCallVlm

SpecVlm == InitVlm /\ [][NextVlm]_vars

\* preprocess_image called directly, once, on an image of any of Sizes.
InitImage ==
    /\ Empty
    /\ probe \in { [fn |-> "preprocess_image", arg |-> size, done |-> FALSE, out |-> NoOutcome] :
                      size \in Sizes }

ProbePreprocessImage ==
    /\ probe.fn = "preprocess_image" /\ ~probe.done
    /\ \E out \in resize(probe.arg[1], probe.arg[2]) :
           probe' = [probe EXCEPT !.done = TRUE, !.out = out]
    /\ UNCHANGED <<docs, queue, workers, tasks, redeliveries, http, outcomes>>

NextImage == ProbePreprocessImage

SpecImage == InitImage /\ [][NextImage]_vars

\* A worker that has a step to take takes it: the classifier call is bounded
\* by its timeout, workers do not crash, and the broker hands every message
\* it holds, scheduled retries included, to a free worker.
FairSpec == Spec /\ \A w \in Workers : WF_vars(WorkerStep(w))

\* ------------------------------------------------------- derived predicates
\* An attempt on document d is pending (a message for it is queued) or in
\* flight (a worker is between its get and the end of the task).
Pending(d) == \E m \in queue : m.doc_id = d
InFlight(d) == \E w \in Workers : workers[w].pc # "idle" /\ workers[w].doc_id = d
Settled(d) ==
    /\ d \in DOMAIN docs
    /\ ~Pending(d) /\ ~InFlight(d)
    /\ \/ docs[d].status = STATUS_COMPLETED /\ docs[d].vlm_results # None
       \/ docs[d].status = STATUS_FAILED /\ docs[d].error_message # None

\* A column holds something: not NULL, and not the empty list or string.
Populated(v) == (v.type = "list" /\ v.items # <<>>) \/ (v.type = "str" /\ v.text # "")

\* Task t has run to its end: no message of it is queued, no worker runs it.
TaskDone(t) ==
    /\ \A m \in queue : m.task # t
    /\ \A w \in Workers : workers[w].task # t
Attempts(t) == Len(tasks[t].calls)
Failure(c) == c.exc # ""
RetryableFailure(c) == c.exc = "RuntimeError"
LastCall(t) == tasks[t].calls[Attempts(t)]

\* ------------------------------------------------------------------ claims

\* C1: in every persisted state of a document, vlm_results and error_message
\* are never both populated.
C1_ResultsErrorExclusive ==
    \A d \in DOMAIN docs :
        ~(Populated(docs[d].vlm_results) /\ Populated(docs[d].error_message))

\* C2: a task delivered a document whose stored status is already Completed
\* short-circuits: none of its steps calls the classifier or changes the row.
C2_CompletedShortCircuits ==
    [][\A w \in Workers :
          (workers[w].delivered_completed /\ workers'[w] # workers[w])
              => (docs' = docs /\ tasks' = tasks)]_vars

\* C3: with one delivery per document, a task whose classifier call fails
\* with a retryable failure every time makes exactly 3 attempts, no fourth
\* attempt is ever made or scheduled, and the document ends Failed.
C3_ThreeAttemptsThenFailed ==
    /\ \A m \in queue : m.retries < 3
    /\ \A t \in DOMAIN tasks :
        /\ Attempts(t) <= 3
        /\ (TaskDone(t) /\ \A i \in 1..Attempts(t) : RetryableFailure(tasks[t].calls[i]))
              => /\ Attempts(t) = 3
                 /\ docs[tasks[t].doc_id].status = STATUS_FAILED

C3_Witness ==
    \E t \in DOMAIN tasks :
        /\ TaskDone(t)
        /\ Attempts(t) = 3
        /\ \A i \in 1..3 : RetryableFailure(tasks[t].calls[i])
        /\ docs[tasks[t].doc_id].status = STATUS_FAILED

\* C4: with one delivery per document, a task whose classifier call fails on
\* the first k <= 2 attempts and then succeeds makes exactly k+1 attempts: the
\* task does not stop before the successful attempt, makes no attempt after
\* it, and the document ends Completed with the successful call's payload.
C4_FailsThenSucceeds ==
    \A t \in DOMAIN tasks :
        /\ \A i \in 1..Attempts(t) : ~Failure(tasks[t].calls[i]) => i = Attempts(t)
        /\ (TaskDone(t) /\ Attempts(t) < 3) => ~Failure(LastCall(t))
        /\ (TaskDone(t) /\ ~Failure(LastCall(t)))
              => /\ docs[tasks[t].doc_id].status = STATUS_COMPLETED
                 /\ docs[tasks[t].doc_id].vlm_results = LastCall(t).value
                 /\ docs[tasks[t].doc_id].error_message = None

C4_Witness ==
    \E t \in DOMAIN tasks :
        /\ TaskDone(t)
        /\ Attempts(t) = 3
        /\ Failure(tasks[t].calls[1]) /\ Failure(tasks[t].calls[2])
        /\ tasks[t].calls[3].value = PneumoniaCodes
        /\ docs[tasks[t].doc_id].status = STATUS_COMPLETED
        /\ docs[tasks[t].doc_id].vlm_results = PneumoniaCodes

\* C5: an attempt that fails because the image cannot be decoded is never
\* followed by a redelivery: no retry message is queued after such an attempt.
C5_DecodeErrorNotRetried ==
    \A m \in queue :
        m.retries > 0 => tasks[m.task].calls[m.retries].exc # "UnidentifiedImageError"

\* C6: in every persisted state error_message is non-null only when status
\* is Failed.
C6_ErrorOnlyWhenFailed ==
    \A d \in DOMAIN docs :
        docs[d].error_message # None => docs[d].status = STATUS_FAILED

\* C7: in every persisted state vlm_results is non-null only when status is
\* Completed.
C7_ResultsOnlyWhenCompleted ==
    \A d \in DOMAIN docs :
        docs[d].vlm_results # None => docs[d].status = STATUS_COMPLETED

\* C8: every change of a stored status is Pending -> Processing,
\* Failed -> Processing, Processing -> Completed or Processing -> Failed.
AllowedTransitions ==
    { <<STATUS_PENDING, STATUS_PROCESSING>>, <<STATUS_FAILED, STATUS_PROCESSING>>,
      <<STATUS_PROCESSING, STATUS_COMPLETED>>, <<STATUS_PROCESSING, STATUS_FAILED>> }

C8_OnlyAllowedTransitions ==
    [][\A d \in DOMAIN docs :
          docs'[d].status # docs[d].status
              => <<docs[d].status, docs'[d].status>> \in AllowedTransitions]_vars

\* C9: when two attempts on the same document overlap, neither overwrites the
\* terminal state the other has persisted with the opposite terminal state.
\* Every attempt writes Processing before its terminal state, so a row that
\* goes from one terminal state straight to the other is written by an attempt
\* that was already in flight when the other attempt persisted its outcome.
C9_NoConflictingTerminalWrites ==
    [][\A d \in DOMAIN docs :
          InFlight(d) =>
              /\ ~(docs[d].status = STATUS_COMPLETED /\ docs'[d].status = STATUS_FAILED)
              /\ ~(docs[d].status = STATUS_FAILED /\ docs'[d].status = STATUS_COMPLETED)]_vars

\* C10: under the fairness of FairSpec, every document that has a record
\* reaches, and after every further delivery reaches again, a state where no
\* attempt on it is pending or in flight and it is Completed with results or
\* Failed with an error message; it does not stay Processing for ever.
C10_EventuallySettled ==
    \A d \in DocIds : []<>(d \in DOMAIN docs => Settled(d))

C10_Witness ==
    \E t \in DOMAIN tasks :
        /\ Attempts(t) >= 2
        /\ Settled(tasks[t].doc_id)

\* C11: a delivery of a document id that has no row returns normally: the
\* step that takes the message changes no row, starts no attempt (the
\* classifier is not called), schedules no retry, and the task ends SUCCESS.
C11_MissingRecordNoOp ==
    [][\A m \in queue :
          (m \notin queue' /\ m.doc_id \notin DOMAIN docs)
              => /\ docs' = docs
                 /\ workers' = workers
                 /\ queue' = queue \ {m}
                 /\ tasks' = [tasks EXCEPT ![m.task].state = "SUCCESS"]
                 /\ tasks[m.task].calls = <<>>]_vars

C11_Witness ==
    \E t \in DOMAIN tasks :
        /\ tasks[t].doc_id \notin DOMAIN docs
        /\ TaskDone(t)
        /\ tasks[t].state = "SUCCESS"
        /\ tasks[t].calls = <<>>

\* ------------------------------------------------- call_vlm, called directly
\* The call of call_vlm under observation has returned or raised.
Called == probe.fn = "call_vlm" /\ probe.done

\* sub in s
Contains(s, sub) == \E i \in 1..Len(s) : StartsWith(s, i, sub)

\* The content of the response as call_vlm parses it.
Stripped == strip_fences(probe.arg.content)

\* C12: a response with a non-success status makes call_vlm raise the
\* transport failure, RuntimeError("OpenRouter error <status>: ..."), whose
\* message contains the status code, whatever the body is; the body is not
\* parsed and nothing is returned.
C12_NonSuccessIsTransportFailure ==
    (Called /\ ~ok(probe.arg))
        => /\ probe.out.raised
           /\ probe.out.exc = "RuntimeError"
           /\ StartsWith(probe.out.msg.text, 1, "OpenRouter error ")
           /\ Contains(probe.out.msg.text, ToString(probe.arg.status_code))
           /\ probe.out.value = None

\* A 429 whose body is a valid JSON array has been answered by the failure.
C12_Witness ==
    /\ Called
    /\ probe.arg = ErrorResponse(429, PneumoniaText)
    /\ probe.out.raised

\* The text is JSON as RFC 8259 defines it: NaN and Infinity are none.
IsValidJson(s) == decode(s, FALSE).ok

\* C13: a successful response whose content, after fence stripping, is not
\* valid JSON makes call_vlm raise the malformed-response failure,
\* RuntimeError("VLM returned non-JSON content: ..."), with at most the
\* first 200 characters of the text, and nothing is returned.
C13_NonJsonIsMalformed ==
    (Called /\ ok(probe.arg) /\ ~IsValidJson(Stripped))
        => /\ probe.out.raised
           /\ probe.out.msg.text = "VLM returned non-JSON content: " \o Take(Stripped, 200)
           /\ probe.out.value = None

\* C14: a successful response whose content parses but whose root is not a
\* list makes call_vlm raise the unexpected-shape failure,
\* RuntimeError("Expected a JSON array, ..."), and the value is not returned.
C14_NonArrayIsUnexpectedShape ==
    (Called /\ ok(probe.arg) /\ json_loads(Stripped).ok
            /\ json_loads(Stripped).value.type # "list")
        => /\ probe.out.raised
           /\ probe.out.exc = "RuntimeError"
           /\ StartsWith(probe.out.msg.text, 1, "Expected a JSON array")
           /\ probe.out.value = None

\* A JSON object at the root has been answered by the failure.
C14_Witness ==
    /\ Called
    /\ probe.arg = OkResponse("{\"code\":\"J18.9\"}")
    /\ probe.out = Raise("RuntimeError", "Expected a JSON array, got: <class 'dict'>")

C16_EmptyArrayIsSuccess ==
    \A t \in DOMAIN tasks :
        (Attempts(t) > 0 /\ LastCall(t).response = OkResponse("[]"))
            => /\ ~Failure(LastCall(t))
               /\ LastCall(t).value = JArray(<<>>)
               /\ tasks[t].state # "FAILURE"
               /\ \A m \in queue : m.task # t
               /\ TaskDone(t)
                     => /\ tasks[t].state = "SUCCESS"
                        /\ docs[tasks[t].doc_id].status = STATUS_COMPLETED
                        /\ docs[tasks[t].doc_id].vlm_results = JArray(<<>>)
                        /\ docs[tasks[t].doc_id].error_message = None

\* A task has ended after the classifier answered with the empty array.
C16_Witness ==
    \E t \in DOMAIN tasks :
        /\ TaskDone(t)
        /\ Attempts(t) > 0
        /\ LastCall(t).response = OkResponse("[]")
        /\ docs[tasks[t].doc_id].status = STATUS_COMPLETED
        /\ docs[tasks[t].doc_id].vlm_results = JArray(<<>>)

\* C17: for every array of code/description objects, call_vlm on its text
\* wrapped in fences (tagged json or not, whitespace around or not) returns,
\* and returns the list that call_vlm returns on the text itself.
C17_FenceStrippingTransparent ==
    \A kind \in FenceKinds, text \in ArrayTexts :
        (Called /\ probe.arg = OkResponse(Wrap(kind, text)))
            => /\ ~probe.out.raised
               /\ probe.out = call_vlm("scan.jpg", OkResponse(text))

\* The fenced, tagged and padded text of the pneumonia codes has been
\* parsed to the two-field object list.
C17_Witness ==
    /\ Called
    /\ probe.arg = OkResponse(Wrap("json_spaced", PneumoniaText))
    /\ probe.out = Return(PneumoniaCodes)

\* ------------------------------------------ preprocess_image, called directly
\* C18: the image preprocess_image outputs has at most MAX_PIXELS pixels: an
\* input within the cap keeps its size; a larger one is scaled to a valid
\* size (both sides >= 1) within the cap, both sides by the same factor up
\* to the rounding of each side to an integer.
C18_OutputWithinCapAndValid ==
    (probe.fn = "preprocess_image" /\ probe.done)
        => LET w == probe.arg[1]
               h == probe.arg[2]
               nw == probe.out.value.items[1]
               nh == probe.out.value.items[2]
           IN  /\ ~probe.out.raised
               /\ nw >= 1 /\ nh >= 1
               /\ nw * nh <= MAX_PIXELS
               /\ w * h <= MAX_PIXELS => (nw = w /\ nh = h)
               /\ nw * h - nh * w <= w
               /\ nh * w - nw * h <= h

\* ------------------------------------------------------------ upload requests
\* The number of answers with the given status so far.
Answered(answers, status) == Cardinality({i \in DOMAIN answers : answers[i] = status})

\* C19: every accepted upload (202) has created exactly one document, with
\* status Pending and neither results nor error message, and has queued
\* exactly one delivery of the id of that document, which exists by then;
\* every rejected upload (400) has created no document and queued nothing;
\* and nothing else creates documents or first deliveries.
C19_UploadCreatesAndQueuesOnce ==
    [][/\ (http' # http /\ http'[Len(http')] = HTTP_202_ACCEPTED)
            => /\ Len(docs') = Len(docs) + 1
               /\ SubSeq(docs', 1, Len(docs)) = docs
               /\ docs'[Len(docs')].status = STATUS_PENDING
               /\ docs'[Len(docs')].vlm_results = None
               /\ docs'[Len(docs')].error_message = None
               /\ queue \subseteq queue'
               /\ Cardinality(queue' \ queue) = 1
               /\ \A m \in queue' \ queue :
                      m.doc_id = Len(docs') /\ m.doc_id \in DOMAIN docs' /\ m.retries = 0
               /\ Len(tasks') = Len(tasks) + 1
       /\ (http' # http /\ http'[Len(http')] = HTTP_400_BAD_REQUEST)
            => docs' = docs /\ queue' = queue /\ tasks' = tasks
       /\ Len(docs') = Answered(http', HTTP_202_ACCEPTED)
       /\ Len(tasks') = Answered(http', HTTP_202_ACCEPTED)
       /\ \A d \in DOMAIN docs' :
              Cardinality({t \in DOMAIN tasks' : tasks'[t].doc_id = d}) = 1]_vars

\* Uploads have been accepted and rejected, and each accepted one has its
\* document and its task.
C19_Witness ==
    /\ Answered(http, HTTP_400_BAD_REQUEST) >= 1
    /\ Answered(http, HTTP_202_ACCEPTED) = 2
    /\ Len(docs) = 2
    /\ Len(tasks) = 2

\* ------------------------------------------------------- the Completed state
\* C20: whenever the stored status of a document is Completed, its
\* vlm_results are not null and are the list a successful call of call_vlm
\* for that document returned, and its error_message is null, also after
\* earlier failed attempts and under redelivery.
C20_CompletedHasResultsNoError ==
    \A d \in DOMAIN docs :
        docs[d].status = STATUS_COMPLETED
            => /\ docs[d].vlm_results # None
               /\ docs[d].error_message = None
               /\ \E t \in DOMAIN tasks :
                      /\ tasks[t].doc_id = d
                      /\ \E k \in DOMAIN tasks[t].calls :
                             /\ ~Failure(tasks[t].calls[k])
                             /\ tasks[t].calls[k].value = docs[d].vlm_results

\* A document is Completed by an attempt that followed a failed one, whose
\* error message the document carried.
C20_Witness ==
    \E t \in DOMAIN tasks :
        /\ tasks[t].doc_id \in DOMAIN docs
        /\ Attempts(t) >= 2
        /\ Failure(tasks[t].calls[1])
        /\ ~Failure(LastCall(t))
        /\ TaskDone(t)
        /\ docs[tasks[t].doc_id].status = STATUS_COMPLETED
        /\ docs[tasks[t].doc_id].vlm_results = PneumoniaCodes
        /\ docs[tasks[t].doc_id].error_message = None

\* -------------------------------------------------- the order within an attempt
\* C21: a retry is scheduled (a message with the next retries count is
\* sent) or a failure leaves the task (the backend records FAILURE) only by
\* an attempt that is past the save of its except branch, and the step that
\* takes a failed attempt there is the save that stores Failed, not
\* Processing, with the text of the attempt's exception as error_message;
\* this holds under redelivery and overlapping attempts as well.
C21_FailedPersistedBeforeRetry ==
    [][/\ \A t \in DOMAIN tasks :
              ((\E m \in queue' \ queue : m.task = t)
                  \/ (tasks'[t].state = "FAILURE" /\ tasks[t].state # "FAILURE"))
                => /\ Attempts(t) > 0
                   /\ Failure(LastCall(t))
                   /\ docs' = docs
                   /\ \E w \in Workers :
                          /\ workers[w].task = t
                          /\ workers[w].pc = "retry"
                          /\ workers'[w].pc = "idle"
       /\ \A w \in Workers :
              (workers'[w].pc = "retry" /\ workers[w].pc # "retry")
                => /\ workers[w].outcome.raised
                   /\ Failure(LastCall(workers[w].task))
                   /\ workers[w].outcome.msg.text # ""
                   /\ docs'[workers[w].doc_id].status = STATUS_FAILED
                   /\ docs'[workers[w].doc_id].error_message = workers[w].outcome.msg]_vars

\* A retry is queued for a document that shows Failed with the message of
\* the 429.
C21_Witness ==
    \E m \in queue :
        /\ m.retries = 1
        /\ tasks[m.task].state = "RETRY"
        /\ docs[m.doc_id].status = STATUS_FAILED
        /\ docs[m.doc_id].error_message = Str("OpenRouter error 429: Rate limit exceeded")

\* C22: an attempt on an existing document comes to its call of call_vlm
\* (preprocessing and the classifier request) by the save that stores
\* Processing; a call is made only by an attempt that is there; and while a
\* call is in progress for a document, its stored status is never Pending.
C22_ProcessingBeforeCall ==
    [][/\ \A w \in Workers :
              (workers'[w].pc = "call_vlm" /\ workers[w].pc # "call_vlm")
                => /\ workers[w].pc = "save_processing"
                   /\ workers[w].doc_id \in DOMAIN docs
                   /\ docs'[workers[w].doc_id].status = STATUS_PROCESSING
       /\ \A t \in DOMAIN tasks :
              Len(tasks'[t].calls) > Len(tasks[t].calls)
                => \E w \in Workers : workers[w].task = t /\ workers[w].pc = "call_vlm"
       /\ \A w \in Workers :
              workers'[w].pc = "call_vlm"
                => docs'[workers'[w].doc_id].status # STATUS_PENDING]_vars

\* A retried attempt is at its call, and the row that showed Failed shows
\* Processing.
C22_Witness ==
    \E w \in Workers :
        /\ workers[w].pc = "call_vlm"
        /\ workers[w].retries >= 1
        /\ docs[workers[w].doc_id].status = STATUS_PROCESSING
        /\ docs[workers[w].doc_id].error_message # None

\* ------------------------------------------------------------ frame of an attempt
\* C23: no step removes a row or changes the id, the file or created_at of
\* a row; a row changes only by a save of an attempt on that document id,
\* and that save leaves the row of every other document as it was.
C23_AttemptChangesOnlyItsRow ==
    [][\A d \in DOMAIN docs :
          /\ d \in DOMAIN docs'
          /\ docs'[d].id = docs[d].id
          /\ docs'[d].file = docs[d].file
          /\ docs'[d].created_at = docs[d].created_at
          /\ docs'[d] # docs[d]
                => /\ \E w \in Workers :
                          /\ workers[w].doc_id = d
                          /\ workers[w].pc \in {"save_processing", "save_completed", "save_failed"}
                          /\ workers'[w] # workers[w]
                   /\ \A e \in DOMAIN docs \ {d} : docs'[e] = docs[e]]_vars

\* The first document has gone through a failed and a successful attempt
\* and kept its id, file and created_at; the second, untouched, is as it
\* was created.
C23_Witness ==
    /\ Len(docs) = 2
    /\ docs[1].id = 1 /\ docs[1].file = "scan.jpg" /\ docs[1].created_at = 1
    /\ docs[1].status = STATUS_COMPLETED
    /\ \E t \in DOMAIN tasks : tasks[t].doc_id = 1 /\ Attempts(t) >= 2 /\ TaskDone(t)
    /\ docs[2] = [id |-> 2, file |-> "truncated.jpg", status |-> STATUS_PENDING,
                  vlm_results |-> None, error_message |-> None, created_at |-> 2]

====
